---- MODULE Spec2Model ----
(***************************************************************************)
(* The two port drivers of erlang_ale, c_src/gpio_port2.c and              *)
(* c_src/i2c_port2.c, as one state machine.  A behaviour runs one of the   *)
(* two executables (variable driver).  The kernel side (sysfs files, the   *)
(* descriptor table, the results of the system calls) is the environment:  *)
(* every system call's result is chosen among the results the kernel can   *)
(* give in the state it is in.                                             *)
(***************************************************************************)
EXTENDS Integers, Sequences, FiniteSets, TLC

VARIABLES
    driver,      \* "gpio" | "i2c": which executable this behaviour runs
    pc,          \* position in main(): "poll" | "dispatch" | "process" | "start" | "loop"
    pin,         \* struct gpio
    i2c,         \* struct i2c_info
    exported,    \* sysfs: the pins whose gpioN directory (value file) exists
    fds,         \* kernel: the open descriptors of the process, beyond 0..2
    revents,     \* fdset[0].revents, fdset[1].revents and nfds of the last poll()
    terminated,  \* the process has exited (err, errx, exit, or a crash)
    run,         \* the length of the current run of consecutive call requests,
                 \* counted up to MaxCalls
    pending,     \* the tokens of the call requests read and not yet replied to
    misreply,    \* a port_reply was sent that does not answer the oldest pending call
    owed,        \* the pins this process exported, with no unexport write since
    last         \* the handler run since the last wait: its request, the struct
                 \* before it, its system calls, the messages it sent, and whether
                 \* it made an unexport write for a pin this process does not owe

vars == <<driver, pc, pin, i2c, exported, fds, revents, terminated, run,
          pending, misreply, owed, last>>

(***************************************************************************)
(* Bounds of the model.                                                    *)
(***************************************************************************)
MaxPin == 1
MaxToken == 2
MaxCalls == 2
MaxBuf == 2

Pins == 0..MaxPin
Tokens == 1..MaxToken

(***************************************************************************)
(* C values.                                                               *)
(***************************************************************************)
\* enum gpio_state
GPIO_CLOSED == "GPIO_CLOSED"
GPIO_OUTPUT == "GPIO_OUTPUT"
GPIO_INPUT == "GPIO_INPUT"
GPIO_INPUT_WITH_INTERRUPTS == "GPIO_INPUT_WITH_INTERRUPTS"

\* <linux/i2c.h>, used at i2c_port2.c:115
I2C_SMBUS_BLOCK_MAX == 32

\* size_t arithmetic is modulo 2^w.  The values compared here lie in -1..40,
\* so any modulus above 80 orders them as the machine's does.
SizeModulus == 1073741824

\* the conversion of a ssize_t to size_t in a mixed comparison
ToSizeT(x) == x % SizeModulus

\* the conversion of an int to unsigned int, on the same stand-in modulus
ToUInt(x) == x % SizeModulus

\* C truth of an int
CTrue(x) == x # 0

\* strlen of sprintf("%d", n)
DecimalLen(n) ==
    IF n < 0 THEN 2 ELSE IF n < 10 THEN 1 ELSE 2

(***************************************************************************)
(* The machine a C function runs on: the struct, the kernel state it       *)
(* changes, the system calls made so far in this handler, the messages     *)
(* sent so far in this handler, the function's return value, and whether   *)
(* the process has exited.                                                 *)
(***************************************************************************)
Op(call, arg, res, how) == [call |-> call, arg |-> arg, res |-> res, how |-> how]

Log(m, call, arg, res, how) ==
    [m EXCEPT !.ops = Append(@, Op(call, arg, res, how))]

Machine(p, ex, f) ==
    [pin |-> p, exported |-> ex, fds |-> f, ops |-> <<>>, sent |-> <<>>,
     ret |-> 0, fatal |-> FALSE, buf |-> "0"]

\* err(), errx(), exit(): the process ends here
Exit(m) == [m EXCEPT !.fatal = TRUE]

(***************************************************************************)
(* Kernel.                                                                 *)
(***************************************************************************)
Outcomes == {"ok", "eopen", "ewrite"}

\* The outcomes the environment chooses among for a control file that exists:
\* the write is taken or refused.  A file that does not exist fails at open
\* (Feasible).
WriteOutcomes == {"ok", "ewrite"}

\* What the kernel lets a write to a control file do: the per-pin files exist
\* only for an exported pin, export takes only a pin not yet exported, and
\* unexport only an exported one.
Feasible(ex, file, arg, outcome) ==
    CASE file \in {"direction", "edge"} /\ arg \notin ex -> "eopen"
      [] file = "unexport" /\ arg \notin ex /\ outcome = "ok" -> "ewrite"
      [] file = "export" /\ arg \in ex /\ outcome = "ok" -> "ewrite"
      [] OTHER -> outcome

\* the effect of a completed write on sysfs
SysfsEffect(ex, file, arg) ==
    CASE file = "export" -> ex \cup {arg}
      [] file = "unexport" -> ex \ {arg}
      [] OTHER -> ex

\* open(2) returns the lowest descriptor not in use
LowestFree(f) ==
    CHOOSE n \in 3..(3 + Cardinality(f)) :
        /\ \A d \in f : d.fd # n
        /\ \A k \in 3..(n - 1) : \E d \in f : d.fd = k

IsOpen(f, fd) == \E d \in f : d.fd = fd

\* close(2)
KClose(m, fd) ==
    [Log(m, "close", fd, IF IsOpen(m.fds, fd) THEN 0 ELSE -1, "")
        EXCEPT !.fds = {d \in m.fds : d.fd # fd}]

\* pread(2)/pwrite(2) of one byte: -1 on a descriptor that is not open
KRw(m, fd, want) == IF IsOpen(m.fds, fd) THEN want ELSE -1

(***************************************************************************)
(* sysfs_write_file, gpio_port2.c:50-68.  count = strlen(value).           *)
(***************************************************************************)
sysfs_write_file(m, file, arg, count, outcome) ==
    LET how == Feasible(m.exported, file, arg, outcome) IN
    IF how = "eopen"
    THEN [Log(m, file, arg, -1, "eopen") EXCEPT !.ret = 0]
    ELSE LET written == IF how = "ok" THEN count ELSE -1
             m1 == Log(m, file, arg, written, how)
             m2 == IF how = "ok"
                   THEN [m1 EXCEPT !.exported = SysfsEffect(@, file, arg)]
                   ELSE m1
         IN IF ToSizeT(written) # count
            THEN [m2 EXCEPT !.ret = 0]
            ELSE [m2 EXCEPT !.ret = written]

(***************************************************************************)
(* gpio_init, gpio_port2.c:77-83                                           *)
(***************************************************************************)
gpio_init ==
    [state |-> GPIO_CLOSED, fd |-> -1, pin_number |-> -1, already_exported |-> 0]

\* gpio_release as it would be without the early return for a closed pin
gpio_release_always(m, uo) ==
    LET m1 == IF m.pin.fd # -1 THEN KClose(m, m.pin.fd) ELSE m
        m2 == [m1 EXCEPT !.pin.fd = -1]
        m3 == IF m2.pin.already_exported = 0
              THEN sysfs_write_file(m2, "unexport", m2.pin.pin_number,
                                    DecimalLen(m2.pin.pin_number), uo)
              ELSE m2
    IN [m3 EXCEPT !.pin.state = GPIO_CLOSED, !.pin.pin_number = -1, !.ret = 1]

\* gpio_release as it would be if a failed unexport write aborted the release
gpio_release_strict(m, uo) ==
    IF m.pin.state = GPIO_CLOSED
    THEN [m EXCEPT !.ret = 1]
    ELSE LET m1 == IF m.pin.fd # -1 THEN KClose(m, m.pin.fd) ELSE m
             m2 == [m1 EXCEPT !.pin.fd = -1]
             m3 == IF m2.pin.already_exported = 0
                   THEN sysfs_write_file(m2, "unexport", m2.pin.pin_number,
                                         DecimalLen(m2.pin.pin_number), uo)
                   ELSE [m2 EXCEPT !.ret = 1]
         IN IF ~CTrue(m3.ret)
            THEN [m3 EXCEPT !.ret = -1]
            ELSE [m3 EXCEPT !.pin.state = GPIO_CLOSED, !.pin.pin_number = -1, !.ret = 1]

(***************************************************************************)
(* gpio_release, gpio_port2.c:157-177.  uo: the unexport write's outcome.  *)
(***************************************************************************)
gpio_release(m, uo) ==
    IF m.pin.state = GPIO_CLOSED
    THEN [m EXCEPT !.ret = 1]
    ELSE LET m1 == IF m.pin.fd # -1 THEN KClose(m, m.pin.fd) ELSE m
             m2 == [m1 EXCEPT !.pin.fd = -1]
             m3 == IF m2.pin.already_exported = 0
                   THEN sysfs_write_file(m2, "unexport", m2.pin.pin_number,
                                         DecimalLen(m2.pin.pin_number), uo)
                   ELSE m2
         IN [m3 EXCEPT !.pin.state = GPIO_CLOSED, !.pin.pin_number = -1, !.ret = 1]

(***************************************************************************)
(* gpio_open, gpio_port2.c:94-148, in the order of the code:               *)
(* release (96-98), export (107-117), direction (119-136), value (138-147) *)
(* e: the outcomes the kernel gives to the calls of this run.              *)
(***************************************************************************)
\* 138-147: pin_number, open(value_path), release on failure
gpio_open_value(m, pin_number, e) ==
    LET m1 == [m EXCEPT !.pin.pin_number = pin_number]
        flags == IF m1.pin.state = GPIO_OUTPUT THEN "O_RDWR" ELSE "O_RDONLY"
        ok == e.openOk /\ pin_number \in m1.exported
        fd == IF ok THEN LowestFree(m1.fds) ELSE -1
        m2 == [Log(m1, "open", pin_number, fd, flags)
                  EXCEPT !.pin.fd = fd,
                         !.fds = IF ok
                                 THEN @ \cup {[fd |-> fd, pin |-> pin_number, flags |-> flags]}
                                 ELSE @]
    IN IF m2.pin.fd < 0
       THEN [gpio_release(m2, e.unexp2) EXCEPT !.ret = -1]
       ELSE [m2 EXCEPT !.ret = 1]

\* 119-136: the direction string, the state, the direction file
gpio_open_direction(m, pin_number, dir, e) ==
    IF dir \notin {"input", "output"}
    THEN [m EXCEPT !.ret = -1]
    ELSE LET dirstr == IF dir = "input" THEN "in" ELSE "out"
             m1 == [m EXCEPT !.pin.state =
                        IF dir = "input" THEN GPIO_INPUT ELSE GPIO_OUTPUT]
             exists == e.dirExists /\ pin_number \in m1.exported
             m2 == Log(m1, "access_direction", pin_number,
                       IF exists THEN 0 ELSE -1, "")
         IN IF exists
            THEN LET m3 == sysfs_write_file(m2, "direction", pin_number,
                                            Len(dirstr), e.dirw)
                 IN IF ~CTrue(m3.ret)
                    THEN [m3 EXCEPT !.ret = -1]
                    ELSE gpio_open_value(m3, pin_number, e)
            ELSE gpio_open_value(m2, pin_number, e)

\* gpio_open_export as it would be if already_exported were set from the
\* access() result alone, before the export write is known to have succeeded
gpio_open_export_eager(m, pin_number, dir, e) ==
    LET exists == pin_number \in m.exported
        m1 == [Log(m, "access_value", pin_number, IF exists THEN 0 ELSE -1, "")
                  EXCEPT !.pin.already_exported = IF exists THEN 1 ELSE 0]
    IN IF ~exists
       THEN LET m2 == sysfs_write_file(m1, "export", pin_number,
                                       DecimalLen(pin_number), e.export)
            IN IF ~CTrue(m2.ret)
               THEN [m2 EXCEPT !.ret = -1]
               ELSE gpio_open_direction(m2, pin_number, dir, e)
       ELSE gpio_open_direction(m1, pin_number, dir, e)

\* 107-117: access(value_path), the export write, already_exported
gpio_open_export(m, pin_number, dir, e) ==
    LET exists == pin_number \in m.exported
        m1 == Log(m, "access_value", pin_number, IF exists THEN 0 ELSE -1, "")
    IN IF ~exists
       THEN LET m2 == sysfs_write_file(m1, "export", pin_number,
                                       DecimalLen(pin_number), e.export)
            IN IF ~CTrue(m2.ret)
               THEN [m2 EXCEPT !.ret = -1]
               ELSE gpio_open_direction([m2 EXCEPT !.pin.already_exported = 0],
                                        pin_number, dir, e)
       ELSE gpio_open_direction([m1 EXCEPT !.pin.already_exported = 1],
                                pin_number, dir, e)

\* gpio_open as it would be without the release of the pin it finds open
gpio_open_no_release(m, pin_number, dir, e) ==
    gpio_open_export(m, pin_number, dir, e)

\* 94-98: a pin that is not closed is released first
gpio_open(m, pin_number, dir, e) ==
    LET m1 == IF m.pin.state # GPIO_CLOSED THEN gpio_release(m, e.unexp) ELSE m
    IN gpio_open_export(m1, pin_number, dir, e)

(***************************************************************************)
(* gpio_write, gpio_port2.c:187-198.  rw: what pwrite returns on an open   *)
(* descriptor.                                                             *)
(***************************************************************************)
\* gpio_write as it would be if it turned an open input pin into an output
\* rather than refuse the write
gpio_write_switching(m, val, rw) ==
    IF m.pin.state = GPIO_CLOSED
    THEN [m EXCEPT !.ret = -1]
    ELSE LET buf == IF val # 0 THEN "1" ELSE "0"
             amount_written == KRw(m, m.pin.fd, rw)
             m1 == [Log(m, "pwrite", m.pin.fd, amount_written, buf)
                       EXCEPT !.pin.state = GPIO_OUTPUT]
         IN IF ToSizeT(amount_written) < 1
            THEN Exit(m1)
            ELSE [m1 EXCEPT !.ret = 1]

\* gpio_write as it would be if it refused only a closed pin
gpio_write_unless_closed(m, val, rw) ==
    IF m.pin.state = GPIO_CLOSED
    THEN [m EXCEPT !.ret = -1]
    ELSE LET buf == IF val # 0 THEN "1" ELSE "0"
             amount_written == KRw(m, m.pin.fd, rw)
             m1 == Log(m, "pwrite", m.pin.fd, amount_written, buf)
         IN IF ToSizeT(amount_written) < 1
            THEN Exit(m1)
            ELSE [m1 EXCEPT !.ret = 1]

gpio_write(m, val, rw) ==
    IF m.pin.state # GPIO_OUTPUT
    THEN [m EXCEPT !.ret = -1]
    ELSE LET buf == IF val # 0 THEN "1" ELSE "0"
             amount_written == KRw(m, m.pin.fd, rw)
             m1 == Log(m, "pwrite", m.pin.fd, amount_written, buf)
         IN IF ToSizeT(amount_written) < 1
            THEN Exit(m1)
            ELSE [m1 EXCEPT !.ret = 1]

(***************************************************************************)
(* gpio_read, gpio_port2.c:207-218.  rw: what pread returns on an open     *)
(* descriptor; byte: the byte pread stores, or, when pread stores nothing, *)
(* the value the uninitialised buf happens to hold.                        *)
(***************************************************************************)
gpio_read(m, rw, byte) ==
    IF m.pin.state = GPIO_CLOSED
    THEN [m EXCEPT !.ret = -1]
    ELSE LET amount_read == KRw(m, m.pin.fd, rw)
             m1 == [Log(m, "pread", m.pin.fd, amount_read, byte) EXCEPT !.buf = byte]
         IN IF ToSizeT(amount_read) < 1
            THEN Exit(m1)
            ELSE [m1 EXCEPT !.ret = IF m1.buf = "1" THEN 1 ELSE 0]

(***************************************************************************)
(* gpio_set_int, gpio_port2.c:232-241.  eo: the edge write's outcome.      *)
(***************************************************************************)
\* gpio_set_int as it would be if it set the state before the edge write, the
\* way gpio_open sets it before the direction write
gpio_set_int_early(m, mode, eo) ==
    LET m0 == [m EXCEPT !.pin.state = GPIO_INPUT_WITH_INTERRUPTS]
        m1 == sysfs_write_file(m0, "edge", m0.pin.pin_number, Len(mode), eo)
    IN IF ~CTrue(m1.ret)
       THEN [m1 EXCEPT !.ret = -1]
       ELSE [m1 EXCEPT !.ret = 1]

gpio_set_int(m, mode, eo) ==
    LET m1 == sysfs_write_file(m, "edge", m.pin.pin_number, Len(mode), eo)
    IN IF ~CTrue(m1.ret)
       THEN [m1 EXCEPT !.ret = -1]
       ELSE [m1 EXCEPT !.pin.state = GPIO_INPUT_WITH_INTERRUPTS, !.ret = 1]

(***************************************************************************)
(* Messages.  A decoded request is a tuple; n is its arity, fnN the arity  *)
(* of the inner tuple of a call.  erl_element(i, t) is NULL when i exceeds *)
(* the arity.  A field beyond the arity holds a default and is never read  *)
(* by the code except through a NULL pointer.                              *)
(***************************************************************************)
Msg(n, tag, p, dir, cmd, ref, fnN, fn, val, mode) ==
    [n |-> n, tag |-> tag, pin |-> p, dir |-> dir, cmd |-> cmd, ref |-> ref,
     fnN |-> fnN, fn |-> fn, val |-> val, mode |-> mode]

NoMsg == Msg(0, "", 0, "", "", 0, 0, "", 0, "")

\* erl_element(pos, tuple) != NULL
erl_element(pos, arity) == pos <= arity

InitMsg(p, dir) == Msg(3, "init", p, dir, "", 0, 0, "", 0, "")
CastMsg(cmd) == Msg(2, "cast", 0, "", cmd, 0, 0, "", 0, "")
CallMsg(ref, fnN, fn, val, mode) == Msg(3, "call", 0, "", "", ref, fnN, fn, val, mode)

Dirs == {"input", "output", "inout"}
Modes == {"rising", "both"}

InitMsgs == {InitMsg(p, d) : p \in Pins, d \in Dirs}
CastMsgs == {CastMsg("release")}
WriteMsgs == {CallMsg(r, 2, "write", v, "") : r \in Tokens, v \in {0, 1}}
ReadMsgs == {CallMsg(r, 1, "read", 0, "") : r \in Tokens}
SetIntMsgs == {CallMsg(r, 2, "set_int", 0, md) : r \in Tokens, md \in Modes}

\* requests outside the protocol: an empty tuple, an unknown tag, a known tag
\* with elements missing, a cast other than release, a call of an unknown
\* function, a call whose function tuple is empty or lacks its argument
BadGpioMsgs ==
    {NoMsg,
     Msg(1, "blink", 0, "", "", 0, 0, "", 0, ""),
     Msg(2, "init", 0, "", "", 0, 0, "", 0, ""),
     Msg(1, "cast", 0, "", "", 0, 0, "", 0, ""),
     CastMsg("open"),
     Msg(2, "call", 0, "", "", 1, 0, "", 0, ""),
     CallMsg(1, 0, "", 0, ""),
     CallMsg(1, 1, "toggle", 0, ""),
     CallMsg(1, 1, "write", 0, ""),
     CallMsg(1, 1, "set_int", 0, "")}

I2cWriteMsg(len) == Msg(2, "i2c_write", 0, "", "", 0, 0, "", len, "")
I2cReadMsg(len) == Msg(2, "i2c_read", 0, "", "", 0, 0, "", len, "")

I2cWriteMsgs == {I2cWriteMsg(l) : l \in 0..MaxBuf}
I2cReadMsgs ==
    {I2cReadMsg(l) : l \in (-1..MaxBuf) \cup {I2C_SMBUS_BLOCK_MAX, I2C_SMBUS_BLOCK_MAX + 1}}
BadI2cMsgs ==
    {NoMsg,
     Msg(1, "i2c_scan", 0, "", "", 0, 0, "", 0, ""),
     Msg(1, "i2c_write", 0, "", "", 0, 0, "", 0, ""),
     Msg(1, "i2c_read", 0, "", "", 0, 0, "", 0, "")}

\* terms sent to the host
Term(kind, a, i) == [kind |-> kind, a |-> a, i |-> i]
Atom(a) == Term("atom", a, 0)
Error(a) == Term("error", a, 0)
IntTerm(i) == Term("int", "", i)
Binary(len) == Term("binary", "", len)
Null == Term("null", "", 0)

OutMsg(type, ref, t) ==
    [type |-> type, ref |-> ref, kind |-> t.kind, a |-> t.a, i |-> t.i]
Plain(t) == OutMsg("plain", 0, t)
PortReply(ref, t) == OutMsg("port_reply", ref, t)
GpioInterrupt(edge) == OutMsg("gpio_interrupt", 0, Atom(edge))

\* erlcmd_send, declared in erlcmd.h: hands one term to the host
erlcmd_send(m, msg) == [m EXCEPT !.sent = Append(@, msg)]

(***************************************************************************)
(* The kernel's answers to one handler run.                                *)
(*   unexp, unexp2  outcome of the unexport write of the first, second     *)
(*                  gpio_release of the run                                *)
(*   export, dirw, edge   outcome of the export, direction, edge write     *)
(*   dirExists      access(direction_path) finds the file                  *)
(*   openOk         open(value_path) succeeds                              *)
(*   rw             return value of pread/pwrite/read/write                *)
(*   byte           the byte read, or the content of an uninitialised buf  *)
(*   ub             what a NULL dereference does: "crash" or "proceed"     *)
(***************************************************************************)
DefaultEnv ==
    [unexp |-> "ok", unexp2 |-> "ok", export |-> "ok", dirExists |-> TRUE,
     dirw |-> "ok", openOk |-> TRUE, edge |-> "ok", rw |-> 1, byte |-> "0",
     ub |-> "crash"]

(***************************************************************************)
(* gpio_process, gpio_port2.c:249-261                                      *)
(***************************************************************************)
gpio_process(m, e) ==
    LET m1 == gpio_read(m, e.rw, e.byte)
        value == m1.ret
    IN IF m1.fatal
       THEN m1
       ELSE IF CTrue(value)
            THEN erlcmd_send(m1, GpioInterrupt("rising"))
            ELSE erlcmd_send(m1, GpioInterrupt("falling"))

(***************************************************************************)
(* gpio_handle_request, gpio_port2.c:266-355                               *)
(***************************************************************************)
\* 342-343: the reply of a call.  resp is still 0 when no function matched,
\* and erl_format then reads through a null pointer.
\* the reply of a call as it would be if an error result were not sent
gpio_call_reply_quiet(m, ref, resp, e) ==
    IF resp.kind = "null" /\ e.ub = "crash"
    THEN Exit(m)
    ELSE IF resp.kind = "error"
         THEN m
         ELSE erlcmd_send(m, PortReply(ref, resp))

gpio_call_reply(m, ref, resp, e) ==
    IF resp.kind = "null" /\ e.ub = "crash"
    THEN Exit(m)
    ELSE erlcmd_send(m, PortReply(ref, resp))

\* 314-340: the function of a call
gpio_handle_call(m, msg, e) ==
    IF msg.fn = "write"
    THEN IF ~erl_element(2, msg.fnN)
         THEN Exit(m)
         ELSE LET m1 == gpio_write(m, msg.val, e.rw)
              IN IF m1.fatal
                 THEN m1
                 ELSE gpio_call_reply(m1, msg.ref,
                          IF CTrue(m1.ret) THEN Atom("ok") ELSE Error("gpio_write_failed"), e)
    ELSE IF msg.fn = "read"
    THEN LET m1 == gpio_read(m, e.rw, e.byte)
             value == m1.ret
         IN IF m1.fatal
            THEN m1
            ELSE gpio_call_reply(m1, msg.ref,
                     IF value # -1 THEN IntTerm(value) ELSE Error("gpio_read_failed"), e)
    ELSE IF msg.fn = "set_int"
    THEN \* 333-335: arg1p is not checked; ERL_ATOM_PTR(NULL) reads through it
         IF ~erl_element(2, msg.fnN) /\ e.ub = "crash"
         THEN Exit(m)
         ELSE LET m1 == gpio_set_int(m, msg.mode, e.edge)
              IN gpio_call_reply(m1, msg.ref,
                     IF CTrue(m1.ret) THEN Atom("ok") ELSE Error("gpio_set_int_failed"), e)
    ELSE gpio_call_reply(m, msg.ref, Null, e)

gpio_handle_request(m, msg, e) ==
    IF ~erl_element(1, msg.n)
    THEN Exit(m)
    ELSE IF msg.tag = "init"
    THEN IF ~erl_element(2, msg.n) \/ ~erl_element(3, msg.n)
         THEN Exit(m)
         ELSE LET m1 == gpio_open(m, msg.pin, msg.dir, e)
              IN IF CTrue(m1.ret)
                 THEN erlcmd_send(m1, Plain(Atom("ok")))
                 ELSE erlcmd_send(m1, Plain(Error("gpio_init_fail")))
    ELSE IF msg.tag = "cast"
    THEN IF ~erl_element(2, msg.n)
         THEN Exit(m)
         ELSE IF msg.cmd = "release"
              THEN gpio_release(m, e.unexp)
              ELSE Exit(m)
    ELSE IF msg.tag = "call"
    THEN IF ~erl_element(2, msg.n) \/ ~erl_element(3, msg.n)
         THEN Exit(m)
         ELSE IF ~erl_element(1, msg.fnN)
              THEN Exit(m)
              ELSE gpio_handle_call(m, msg, e)
    ELSE Exit(m)

(***************************************************************************)
(* i2c_port2.c                                                             *)
(***************************************************************************)
\* i2c_init, 39-42: memset(i2c, 0, sizeof(*i2c))
i2c_init == [fd |-> 0, addr |-> 0]

\* i2c_open, 44-56.  Exits on a failed open or ioctl.
i2c_open(m, dev, addr, openOk, ioctlOk) ==
    LET fd == IF openOk THEN LowestFree(m.fds) ELSE -1
        m1 == [Log(m, "open_i2c", addr, fd, "O_RDWR")
                  EXCEPT !.fds = IF openOk
                                 THEN @ \cup {[fd |-> fd, pin |-> -1, flags |-> "O_RDWR"]}
                                 ELSE @]
    IN IF fd < 0
       THEN [dev |-> [dev EXCEPT !.fd = fd], m |-> Exit(m1)]
       ELSE LET m2 == Log(m1, "ioctl", addr, IF ioctlOk THEN 0 ELSE -1, "I2C_SLAVE")
            IN IF ~ioctlOk
               THEN [dev |-> [dev EXCEPT !.fd = fd], m |-> Exit(m2)]
               ELSE [dev |-> [dev EXCEPT !.fd = fd, !.addr = addr], m |-> m2]

\* i2c_write as it would be if only a failed write counted as a failure
i2c_write_lenient(m, dev, len, res) ==
    LET written == KRw(m, dev.fd, res)
        m1 == Log(m, "write", dev.fd, written, "")
    IN IF written < 0
       THEN [m1 EXCEPT !.ret = -1]
       ELSE [m1 EXCEPT !.ret = 1]

\* i2c_write, 66-74.  res: what write(2) returns on the open descriptor.
i2c_write(m, dev, len, res) ==
    LET written == KRw(m, dev.fd, res)
        m1 == Log(m, "write", dev.fd, written, "")
    IN IF written # len
       THEN [m1 EXCEPT !.ret = -1]
       ELSE [m1 EXCEPT !.ret = 1]

\* i2c_read, 84-91.  res: what read(2) returns on the open descriptor.
i2c_read(m, dev, len, res) ==
    LET got == KRw(m, dev.fd, res)
        m1 == Log(m, "read", dev.fd, got, "")
    IN IF got # len
       THEN [m1 EXCEPT !.ret = -1]
       ELSE [m1 EXCEPT !.ret = 1]

\* i2c_handle_request, 93-135.  Neither edata nor elen is checked against
\* NULL before ERL_BIN_PTR, ERL_BIN_SIZE, ERL_INT_VALUE read through it, and
\* the length of an i2c_read is an int checked against the maximum only.
i2c_handle_request(m, dev, msg, e) ==
    IF ~erl_element(1, msg.n)
    THEN Exit(m)
    ELSE IF msg.tag = "i2c_write"
    THEN IF ~erl_element(2, msg.n) /\ e.ub = "crash"
         THEN Exit(m)
         ELSE LET m1 == i2c_write(m, dev, msg.val, e.rw)
              IN erlcmd_send(m1, Plain(IntTerm(m1.ret)))
    ELSE IF msg.tag = "i2c_read"
    THEN IF ~erl_element(2, msg.n) /\ e.ub = "crash"
         THEN Exit(m)
         ELSE LET len == msg.val
              IN IF len > I2C_SMBUS_BLOCK_MAX
                 THEN Exit(m)
                 \* 118: char data[len] with a negative len is undefined
                 ELSE IF len < 0 /\ e.ub = "crash"
                 THEN Exit(m)
                 ELSE LET m1 == i2c_read(m, dev, ToUInt(len), e.rw)
                      IN IF m1.ret < 0
                         THEN erlcmd_send(m1, Plain(IntTerm(-1)))
                         ELSE erlcmd_send(m1, Plain(Binary(len)))
    ELSE Exit(m)

(***************************************************************************)
(* The state machine.                                                      *)
(***************************************************************************)
NoLast ==
    [kind |-> "none", msg |-> NoMsg, pre |-> gpio_init, ops |-> <<>>,
     sent |-> <<>>, ret |-> 0, fatal |-> FALSE, stray |-> FALSE]

\* The host's view of the replies: each port_reply among msgs must answer the
\* oldest call still pending, and echo its token.
RECURSIVE Match(_, _)
Match(q, msgs) ==
    IF msgs = <<>>
    THEN q
    ELSE IF Head(msgs).type # "port_reply"
         THEN Match(q, Tail(msgs))
         ELSE IF q.pending # <<>> /\ Head(q.pending) = Head(msgs).ref
              THEN Match([q EXCEPT !.pending = Tail(@)], Tail(msgs))
              ELSE Match([q EXCEPT !.misreply = TRUE], Tail(msgs))

\* the export/unexport ledger of the process after the system calls ops
RECURSIVE Ledger(_, _)
Ledger(l, ops) ==
    IF ops = <<>>
    THEN l
    ELSE LET o == Head(ops)
             l1 == IF o.call = "export" /\ o.how = "ok"
                   THEN [l EXCEPT !.owed = @ \cup {o.arg}]
                   ELSE IF o.call = "unexport"
                        THEN IF o.arg \in l.owed
                             THEN [l EXCEPT !.owed = @ \ {o.arg}]
                             ELSE [l EXCEPT !.stray = TRUE]
                        ELSE l
         IN Ledger(l1, Tail(ops))

IsCall(msg) == msg.tag = "call" /\ erl_element(2, msg.n)

\* the state after a handler has run on machine m
Commit(m, kind, msg, nextpc) ==
    /\ pin' = m.pin
    /\ exported' = m.exported
    /\ fds' = m.fds
    /\ terminated' = m.fatal
    /\ LET l == Ledger([owed |-> owed, stray |-> FALSE], m.ops)
       IN /\ owed' = l.owed
          /\ last' = [kind |-> kind, msg |-> msg, pre |-> pin, ops |-> m.ops,
                      sent |-> m.sent, ret |-> m.ret, fatal |-> m.fatal,
                      stray |-> l.stray]
    /\ run' = IF kind # "request" THEN run
              ELSE IF ~IsCall(msg) THEN 0
              ELSE IF run < MaxCalls THEN run + 1 ELSE run
    /\ LET read == IF kind = "request" /\ IsCall(msg)
                   THEN Append(pending, msg.ref) ELSE pending
           q == Match([pending |-> read, misreply |-> misreply], m.sent)
       IN pending' = q.pending /\ misreply' = q.misreply
    /\ pc' = nextpc

Init ==
    /\ driver \in {"gpio", "i2c"}
    /\ pc = IF driver = "gpio" THEN "poll" ELSE "start"
    /\ pin = gpio_init
    /\ i2c = i2c_init
    /\ exported \in IF driver = "gpio" THEN SUBSET Pins ELSE {{}}
    /\ fds = {}
    /\ revents = [in |-> FALSE, pri |-> FALSE, nfds |-> 0]
    /\ terminated = FALSE
    /\ run = 0
    /\ pending = <<>>
    /\ misreply = FALSE
    /\ owed = {}
    /\ last = NoLast

(***************************************************************************)
(* gpio_port2.c main, 361-400                                              *)
(***************************************************************************)
\* nfds as it would be if any pin open for input were watched
PollNfds_input(state) ==
    IF state \in {GPIO_INPUT, GPIO_INPUT_WITH_INTERRUPTS} THEN 2 ELSE 1

\* 383: the number of entries of fdset that poll() is told to watch
PollNfds(state) == IF state = GPIO_INPUT_WITH_INTERRUPTS THEN 2 ELSE 1

\* 369-383: poll() over stdin and, with interrupts enabled, the value file.
\* fdset[1].revents is cleared before the call and written by poll() only
\* when the entry is watched and its descriptor is open.
Poll ==
    /\ driver = "gpio" /\ pc = "poll" /\ ~terminated
    /\ LET nfds == PollNfds(pin.state)
       IN \E inReady \in BOOLEAN, priReady \in BOOLEAN :
            /\ inReady \/ priReady
            /\ priReady => (nfds = 2 /\ IsOpen(fds, pin.fd))
            /\ revents' = [in |-> inReady, pri |-> priReady, nfds |-> nfds]
            /\ pc' = IF inReady THEN "dispatch" ELSE "process"
    /\ last' = NoLast
    /\ UNCHANGED <<driver, pin, i2c, exported, fds, terminated, run, pending,
                   misreply, owed>>

\* 384-387: poll() interrupted by a signal: the loop starts over
PollRetry ==
    /\ driver = "gpio" /\ pc = "poll" /\ ~terminated
    /\ UNCHANGED vars

\* 389: poll() failed
PollFail ==
    /\ driver = "gpio" /\ pc = "poll" /\ ~terminated
    /\ terminated' = TRUE
    /\ last' = NoLast
    /\ UNCHANGED <<driver, pc, pin, i2c, exported, fds, revents, run, pending,
                   misreply, owed>>

AfterDispatch == IF revents.pri THEN "process" ELSE "poll"

\* 392-393: erlcmd_process reads one request and calls gpio_handle_request
GpioDispatch(msg, e) ==
    /\ driver = "gpio" /\ pc = "dispatch" /\ ~terminated
    /\ Commit(gpio_handle_request(Machine(pin, exported, fds), msg, e),
              "request", msg, AfterDispatch)
    /\ UNCHANGED <<driver, i2c, revents>>

InitReq ==
    \E msg \in InitMsgs, openOk \in BOOLEAN, dirExists \in BOOLEAN :
    \E uo \in IF pin.state # GPIO_CLOSED /\ pin.already_exported = 0
              THEN WriteOutcomes ELSE {"ok"},
       ex \in IF msg.pin \in exported /\ (pin.pin_number # msg.pin \/ pin.already_exported = 1)
              THEN {"ok"} ELSE WriteOutcomes,
       dw \in IF dirExists /\ msg.dir \in {"input", "output"} THEN WriteOutcomes ELSE {"ok"},
       uo2 \in IF openOk THEN {"ok"} ELSE WriteOutcomes :
        GpioDispatch(msg, [DefaultEnv EXCEPT !.unexp = uo, !.unexp2 = uo2,
                               !.export = ex, !.dirExists = dirExists,
                               !.dirw = dw, !.openOk = openOk])

CastReq ==
    \E msg \in CastMsgs :
    \E uo \in IF pin.state # GPIO_CLOSED /\ pin.already_exported = 0
              THEN WriteOutcomes ELSE {"ok"} :
        GpioDispatch(msg, [DefaultEnv EXCEPT !.unexp = uo])

WriteReq ==
    \E msg \in WriteMsgs :
    \E rw \in IF pin.state = GPIO_OUTPUT /\ IsOpen(fds, pin.fd) THEN {-1, 0, 1} ELSE {1} :
        GpioDispatch(msg, [DefaultEnv EXCEPT !.rw = rw])

ReadReq ==
    \E msg \in ReadMsgs :
    \E rw \in IF IsOpen(fds, pin.fd) THEN {-1, 0, 1} ELSE {1},
       byte \in IF pin.state # GPIO_CLOSED THEN {"0", "1"} ELSE {"0"} :
        GpioDispatch(msg, [DefaultEnv EXCEPT !.rw = rw, !.byte = byte])

SetIntReq ==
    \E msg \in SetIntMsgs :
    \E eo \in IF pin.pin_number \in exported THEN WriteOutcomes ELSE {"ok"} :
        GpioDispatch(msg, [DefaultEnv EXCEPT !.edge = eo])

BadReq ==
    \E msg \in BadGpioMsgs :
    \E ub \in IF msg.tag = "call" /\ msg.fn \in {"toggle", "set_int"}
              THEN {"crash", "proceed"} ELSE {"crash"},
       eo \in IF msg.fn = "set_int" /\ pin.pin_number \in exported
              THEN WriteOutcomes ELSE {"ok"} :
        GpioDispatch(msg, [DefaultEnv EXCEPT !.ub = ub, !.edge = eo])

\* erlcmd_process on a closed channel: the host is gone, the port exits
ChannelClosed ==
    /\ pc \in {"dispatch", "loop"} /\ ~terminated
    /\ terminated' = TRUE
    /\ UNCHANGED <<driver, pc, pin, i2c, exported, fds, revents, run, pending,
                   misreply, owed, last>>

\* 395-396: gpio_process
Interrupt ==
    /\ driver = "gpio" /\ pc = "process" /\ ~terminated
    /\ \E rw \in IF IsOpen(fds, pin.fd) THEN {-1, 0, 1} ELSE {1},
          byte \in IF pin.state # GPIO_CLOSED THEN {"0", "1"} ELSE {"0"} :
         Commit(gpio_process(Machine(pin, exported, fds),
                             [DefaultEnv EXCEPT !.rw = rw, !.byte = byte]),
                "interrupt", NoMsg, "poll")
    /\ UNCHANGED <<driver, i2c, revents>>

(***************************************************************************)
(* i2c_port2.c main, 141-161                                               *)
(***************************************************************************)
I2cAddrs == {32}

\* 143-153: the argument count, i2c_init, i2c_open
I2cStart ==
    /\ driver = "i2c" /\ pc = "start" /\ ~terminated
    /\ \E argc \in {2, 3}, addr \in I2cAddrs, openOk \in BOOLEAN, ioctlOk \in BOOLEAN :
         IF argc # 3
         THEN /\ terminated' = TRUE
              /\ UNCHANGED <<i2c, fds, last, pc>>
         ELSE LET r == i2c_open(Machine(pin, exported, fds), i2c_init, addr,
                                openOk, ioctlOk)
              IN /\ i2c' = r.dev
                 /\ fds' = r.m.fds
                 /\ terminated' = r.m.fatal
                 /\ last' = [NoLast EXCEPT !.kind = "start", !.ops = r.m.ops,
                                           !.fatal = r.m.fatal]
                 /\ pc' = "loop"
    /\ UNCHANGED <<driver, pin, exported, revents, run, pending, misreply, owed>>

\* 155-158: erlcmd_process reads one request and calls i2c_handle_request
I2cDispatch(msg, e) ==
    /\ driver = "i2c" /\ pc = "loop" /\ ~terminated
    /\ Commit(i2c_handle_request(Machine(pin, exported, fds), i2c, msg, e),
              "request", msg, "loop")
    /\ UNCHANGED <<driver, i2c, revents>>

I2cWriteReq ==
    \E msg \in I2cWriteMsgs : \E rw \in {-1} \cup (0..msg.val) :
        I2cDispatch(msg, [DefaultEnv EXCEPT !.rw = rw])

I2cReadReq ==
    \E msg \in I2cReadMsgs :
    \E rw \in IF msg.val > I2C_SMBUS_BLOCK_MAX THEN {-1} ELSE {-1, 0, msg.val},
       ub \in IF msg.val < 0 THEN {"crash", "proceed"} ELSE {"crash"} :
        I2cDispatch(msg, [DefaultEnv EXCEPT !.rw = rw, !.ub = ub])

I2cBadReq ==
    \E msg \in BadI2cMsgs :
    \E ub \in IF erl_element(1, msg.n) /\ msg.tag \in {"i2c_write", "i2c_read"}
              THEN {"crash", "proceed"} ELSE {"crash"},
       rw \in {-1, 0} :
        I2cDispatch(msg, [DefaultEnv EXCEPT !.ub = ub, !.rw = rw])

Next ==
    \/ Poll
    \/ PollRetry
    \/ PollFail
    \/ InitReq
    \/ CastReq
    \/ WriteReq
    \/ ReadReq
    \/ SetIntReq
    \/ BadReq
    \/ ChannelClosed
    \/ Interrupt
    \/ I2cStart
    \/ I2cWriteReq
    \/ I2cReadReq
    \/ I2cBadReq

Spec == Init /\ [][Next]_vars

(***************************************************************************)
(* Properties.  They are stated on the state a handler leaves: last holds  *)
(* the request it served, the struct before it ran (last.pre), the system  *)
(* calls it made in order (last.ops), the messages it sent (last.sent) and *)
(* the return value of the controller operation (last.ret).                *)
(***************************************************************************)
Served(msgs) == last.kind = "request" /\ last.msg \in msgs

\* the positions in last.ops of the system calls named in names
OpsOf(names) == {i \in 1..Len(last.ops) : last.ops[i].call \in names}

ValueDescriptorOpen == IsOpen(fds, pin.fd)

\* C1: between two requests the value descriptor is open if and only if the
\* state is not Closed.
C1_DescriptorOpenIffNotClosed ==
    (driver = "gpio" /\ ~terminated) =>
        (ValueDescriptorOpen <=> pin.state # GPIO_CLOSED)

\* C2: init is answered ok only if gpio_open succeeded, and error(gpio_init_fail)
\* whenever it failed, the process running on.
C2_InitReplyReportsOpen ==
    Served(InitMsgs) =>
        /\ last.sent = <<Plain(Atom("ok"))>> => last.ret = 1
        /\ last.ret = -1 =>
               last.sent = <<Plain(Error("gpio_init_fail"))>> /\ ~terminated

\* C3: the reply of a call reports the outcome of the operation: an error body
\* when write, read or set_int failed, ok (or the value read) only on success.
C3_CallReplyReportsOutcome ==
    /\ (Served(WriteMsgs) /\ ~last.fatal) =>
           last.sent = <<PortReply(last.msg.ref,
                            IF last.ret = 1 THEN Atom("ok")
                            ELSE Error("gpio_write_failed"))>>
    /\ (Served(ReadMsgs) /\ ~last.fatal) =>
           last.sent = <<PortReply(last.msg.ref,
                            IF last.ret = -1 THEN Error("gpio_read_failed")
                            ELSE IntTerm(last.ret))>>
    /\ (Served(SetIntMsgs) /\ ~last.fatal) =>
           last.sent = <<PortReply(last.msg.ref,
                            IF last.ret = 1 THEN Atom("ok")
                            ELSE Error("gpio_set_int_failed"))>>

\* C4: the call requests that do not end the process are answered one by one,
\* in the order read, each by exactly one port_reply echoing its token and sent
\* by the handler of that request, before the next request is read; no other
\* handler sends a port_reply.
C4_RepliesInOrder ==
    /\ ~misreply
    /\ pending # <<>> => (Len(pending) = 1 /\ terminated /\ last.fatal)
    /\ (last.kind = "request" /\ IsCall(last.msg) /\ ~last.fatal) =>
           /\ Len(last.sent) = 1
           /\ last.sent[1].type = "port_reply"
           /\ last.sent[1].ref = last.msg.ref
    /\ ~(last.kind = "request" /\ IsCall(last.msg)) =>
           \A i \in 1..Len(last.sent) : last.sent[i].type # "port_reply"

\* a run of MaxCalls consecutive calls, each answered
C4_Witness ==
    /\ run = MaxCalls
    /\ Served(WriteMsgs \cup ReadMsgs \cup SetIntMsgs)
    /\ ~terminated
    /\ pending = <<>>
    /\ last.sent[1].ref = last.msg.ref

\* C5: whenever the state is Closed no pin exported by this process is left
\* without its unexport write, and no unexport write is made for a pin this
\* process did not export.
C5_ExportUnexportPaired ==
    driver = "gpio" =>
        /\ pin.state = GPIO_CLOSED => owed = {}
        /\ ~last.stray

\* C6: a request outside the protocol, or lacking a required sub-field, ends
\* the process, and nothing is sent for it.
C6_MalformedIsFatal ==
    Served(BadGpioMsgs \cup BadI2cMsgs) => (terminated /\ last.sent = <<>>)

\* access(value_path) found no value file in the last gpio_open
ValueFileAbsent ==
    \E i \in OpsOf({"access_value"}) : last.ops[i].res = -1

\* the export write of the last gpio_open comes before every write of the
\* direction file and every open of the value file
ExportComesFirst ==
    \E i \in OpsOf({"export"}) : \A j \in OpsOf({"direction", "open"}) : i < j

\* C7, as claimed: with no value file, open writes the export file before any
\* other control file and ownsExport becomes true; with a value file there is
\* no export write and ownsExport becomes false.
C7_ExportFirstThenOwns ==
    Served(InitMsgs) =>
        IF ValueFileAbsent
        THEN ExportComesFirst /\ pin.already_exported = 0
        ELSE OpsOf({"export"}) = {} /\ pin.already_exported = 1

\* C7, amended: with no value file, open writes the export file before any
\* other control file; ownsExport becomes true when that write succeeds, and
\* when it fails open returns failure without touching another control file
\* and ownsExport keeps the value it had.  With a value file there is no
\* export write and ownsExport becomes false.
C7_ExportFirstOwnsIfExported ==
    Served(InitMsgs) =>
        IF ValueFileAbsent
        THEN /\ ExportComesFirst
             /\ \A i \in OpsOf({"export"}) :
                   IF last.ops[i].how = "ok"
                   THEN pin.already_exported = 0
                   ELSE /\ last.ret = -1
                        /\ OpsOf({"direction", "open"}) = {}
                        /\ pin.already_exported = last.pre.already_exported
        ELSE OpsOf({"export"}) = {} /\ pin.already_exported = 1

\* an open that exported the pin itself and went on to open the value file
C7_Witness ==
    /\ Served(InitMsgs)
    /\ ValueFileAbsent
    /\ \E i \in OpsOf({"export"}) : last.ops[i].how = "ok"
    /\ OpsOf({"open"}) # {}
    /\ pin.already_exported = 0
    /\ last.pre.already_exported = 1

\* C8: release of a resource that is not Closed writes the unexport file iff
\* ownsExport; whether or not that write succeeds, release returns success
\* and leaves the resource Closed with its descriptor closed.
C8_ReleaseUnexportsIffOwner ==
    /\ (Served(CastMsgs) /\ last.pre.state # GPIO_CLOSED) =>
           /\ OpsOf({"unexport"}) # {} <=> last.pre.already_exported = 0
           /\ last.ret = 1
           /\ pin.state = GPIO_CLOSED
           /\ pin.fd = -1
           /\ ~IsOpen(fds, last.pre.fd)
           /\ ~terminated
    \* the release that gpio_open makes of the pin it finds open
    /\ (Served(InitMsgs) /\ last.pre.state # GPIO_CLOSED) =>
           ((\E i \in OpsOf({"unexport"}) : \A j \in OpsOf({"access_value"}) : i < j)
                <=> last.pre.already_exported = 0)

\* a release by the owner whose unexport write failed
C8_Witness ==
    /\ Served(CastMsgs)
    /\ last.pre.state # GPIO_CLOSED
    /\ last.pre.fd # -1
    /\ \E i \in OpsOf({"unexport"}) : last.ops[i].how # "ok"

\* the edge write of the last gpio_set_int was taken
EdgeWritten == \E i \in OpsOf({"edge"}) : last.ops[i].how = "ok"

\* C9: set_int moves the state to InputWithInterrupts iff the edge write
\* succeeds; when it fails the call returns failure and the struct is as before.
C9_SetIntIffEdgeWritten ==
    Served(SetIntMsgs) =>
        /\ Cardinality(OpsOf({"edge"})) = 1
        /\ EdgeWritten =>
               /\ last.ret = 1
               /\ pin = [last.pre EXCEPT !.state = GPIO_INPUT_WITH_INTERRUPTS]
        /\ ~EdgeWritten => (last.ret = -1 /\ pin = last.pre)

\* an Input pin armed by set_int
C9_Witness ==
    /\ Served(SetIntMsgs)
    /\ last.pre.state = GPIO_INPUT
    /\ EdgeWritten
    /\ pin.state = GPIO_INPUT_WITH_INTERRUPTS

\* C10: write in a state other than Output returns failure, makes no write on
\* the value descriptor and leaves the struct as it was.
C10_WriteRefusedUnlessOutput ==
    (Served(WriteMsgs) /\ last.pre.state # GPIO_OUTPUT) =>
        /\ last.ret = -1
        /\ OpsOf({"pwrite"}) = {}
        /\ pin = last.pre
        /\ ~terminated

\* a write on an open pin that is not an output
C10_Witness ==
    /\ Served(WriteMsgs)
    /\ last.pre.state = GPIO_INPUT_WITH_INTERRUPTS
    /\ last.pre.fd # -1

\* C11: read on a Closed resource returns failure without any system call; in
\* every other state it reads one byte at offset 0 of the value descriptor and
\* returns true iff that byte is '1'.
C11_ReadSamplesUnlessClosed ==
    Served(ReadMsgs) =>
        IF last.pre.state = GPIO_CLOSED
        THEN last.ret = -1 /\ last.ops = <<>>
        ELSE /\ Cardinality(OpsOf({"pread"})) = 1
             /\ \A i \in OpsOf({"pread"}) :
                   ~last.fatal =>
                       /\ last.ops[i].res = 1
                       /\ last.ret = (IF last.ops[i].how = "1" THEN 1 ELSE 0)

\* C12: release on a Closed resource reports success, makes no system call
\* (no close, no unexport write) and leaves every field of the resource as it
\* was, so that a cast(release) after a cast(release) changes nothing.
C12_ReleaseOfClosedIsNoOp ==
    (Served(CastMsgs) /\ last.pre.state = GPIO_CLOSED) =>
        /\ last.ret = 1
        /\ last.ops = <<>>
        /\ last.sent = <<>>
        /\ pin = last.pre
        /\ ~terminated

\* a release of a resource that an earlier request has opened and closed
\* again: it still carries the flag of that open
C12_Witness ==
    /\ Served(CastMsgs)
    /\ last.pre.state = GPIO_CLOSED
    /\ last.pre.already_exported = 1

\* C13: an i2c_read whose length exceeds the maximum block size issues no
\* read on the device descriptor, sends nothing and ends the process; one
\* whose length is within the maximum issues exactly one read and sends
\* exactly one reply, the buffer or -1.
C13_I2cReadLengthChecked ==
    Served(I2cReadMsgs) =>
        IF last.msg.val > I2C_SMBUS_BLOCK_MAX
        THEN OpsOf({"read"}) = {} /\ last.sent = <<>> /\ terminated
        ELSE /\ Cardinality(OpsOf({"read"})) = 1
             /\ Len(last.sent) = 1
             /\ last.sent[1] \in {Plain(IntTerm(-1)), Plain(Binary(last.msg.val))}

\* C14: an i2c_write is answered 1 iff the write on the device descriptor
\* transferred exactly the length of the buffer and -1 otherwise, and either
\* way the process lives on, ready to read the next request.
C14_I2cWriteReportsTransfer ==
    Served(I2cWriteMsgs) =>
        /\ Cardinality(OpsOf({"write"})) = 1
        /\ \A i \in OpsOf({"write"}) :
              last.sent = <<Plain(IntTerm(IF last.ops[i].res = last.msg.val
                                          THEN 1 ELSE -1))>>
        /\ ~last.fatal
        /\ pc = "loop"

\* a write that transferred some of the buffer, but not all of it
C14_Witness ==
    /\ Served(I2cWriteMsgs)
    /\ \E i \in OpsOf({"write"}) :
          last.ops[i].res > 0 /\ last.ops[i].res < last.msg.val
    /\ last.sent = <<Plain(IntTerm(-1))>>
    /\ ~terminated
    /\ pc = "loop"

\* poll() has returned and nothing has run since
PollReturned ==
    driver = "gpio" /\ (pc = "dispatch" \/ (pc = "process" /\ last.kind = "none"))

\* C15: in every iteration of the loop the value descriptor is among the
\* descriptors poll() watches iff the state is InputWithInterrupts when the
\* wait begins: it is watched from the first wait after a set_int that
\* succeeded, and no longer after a release or another open.
C15_InterruptWatchedIffArmed ==
    /\ PollReturned =>
           /\ revents.nfds \in {1, 2}
           /\ revents.nfds = 2 <=> pin.state = GPIO_INPUT_WITH_INTERRUPTS
           /\ revents.nfds = 2 => IsOpen(fds, pin.fd)
           /\ revents.pri => revents.nfds = 2
    \* what the next wait will watch
    /\ (Served(SetIntMsgs) /\ EdgeWritten) => PollNfds(pin.state) = 2
    /\ Served(CastMsgs \cup InitMsgs) => PollNfds(pin.state) = 1

\* a wait that watched the value descriptor and found it ready, along with
\* a request
C15_Witness ==
    /\ PollReturned
    /\ revents.nfds = 2
    /\ revents.pri
    /\ revents.in

\* InputWithInterrupts is entered only from Input and only by set_int
ArmedFromInputOnly ==
    (last.kind = "request" /\ pin.state = GPIO_INPUT_WITH_INTERRUPTS
        /\ pin.state # last.pre.state) =>
            (last.msg.fn = "set_int" /\ last.pre.state = GPIO_INPUT)

\* C16: the state moves along the lifecycle only.  It becomes Output or Input
\* only by an open that succeeds, and an open that fails leaves it Closed; it
\* becomes InputWithInterrupts only from Input and only by set_int; it
\* becomes Closed only by a release or by an open.
C16_LifecycleOnly ==
    /\ last.kind = "interrupt" => pin.state = last.pre.state
    /\ last.kind = "request" =>
          /\ (pin.state \in {GPIO_OUTPUT, GPIO_INPUT} /\ pin.state # last.pre.state) =>
                 (Served(InitMsgs) /\ last.ret = 1)
          /\ (Served(InitMsgs) /\ last.ret = -1) => pin.state = GPIO_CLOSED
          /\ (pin.state = GPIO_CLOSED /\ pin.state # last.pre.state) =>
                 Served(CastMsgs \cup InitMsgs)
    /\ ArmedFromInputOnly

\* the gpio_interrupt events among the messages of the last handler
InterruptsSent == {i \in 1..Len(last.sent) : last.sent[i].type = "gpio_interrupt"}

\* gpio_process, run on a pin that the request of the same iteration has
\* released or opened again, sends no event
NoEventOnceDisarmed ==
    (last.kind = "interrupt" /\ last.pre.state # GPIO_INPUT_WITH_INTERRUPTS) =>
        InterruptsSent = {}

\* C17: every gpio_interrupt event comes from gpio_process sampling one byte of
\* the value descriptor while the state is InputWithInterrupts, rising iff
\* the byte is '1' and falling otherwise; when the request served in the same
\* iteration has released or re-opened the pin, no event is sent.
C17_InterruptFromSample ==
    /\ (\A k \in InterruptsSent :
        /\ last.kind = "interrupt"
        /\ last.pre.state = GPIO_INPUT_WITH_INTERRUPTS
        /\ Cardinality(OpsOf({"pread"})) = 1
        /\ \A i \in OpsOf({"pread"}) :
              /\ last.ops[i].res = 1
              /\ last.sent[k] = GpioInterrupt(IF last.ops[i].how = "1"
                                              THEN "rising" ELSE "falling"))
    /\ NoEventOnceDisarmed

\* the system calls gpio_open makes for the pin it is asked to open
NewPinOps == OpsOf({"access_value", "export", "access_direction", "direction", "open"})

\* C18: an open that finds the resource not Closed releases the current pin
\* in full, closing its descriptor and unexporting it if owned, before it
\* touches any control file of the new pin; so at most one value descriptor
\* is open at any time, and every open descriptor is the one the resource
\* refers to.
C18_OpenReleasesFirst ==
    /\ (Served(InitMsgs) /\ last.pre.state # GPIO_CLOSED) =>
           /\ last.pre.fd # -1 =>
                  /\ last.ops # <<>>
                  /\ last.ops[1] = Op("close", last.pre.fd, 0, "")
           /\ last.pre.already_exported = 0 =>
                  \E i \in OpsOf({"unexport"}) :
                      /\ last.ops[i].arg = last.pre.pin_number
                      /\ \A j \in NewPinOps : i < j
           /\ NewPinOps # {}
    /\ driver = "gpio" =>
           /\ Cardinality(fds) <= 1
           /\ \A d \in fds : d.fd = pin.fd /\ d.pin = pin.pin_number

\* an open of one pin on a resource that held another, exported by this
\* process, with its descriptor open
C18_Witness ==
    /\ Served(InitMsgs)
    /\ last.pre.state # GPIO_CLOSED
    /\ last.pre.fd # -1
    /\ last.pre.already_exported = 0
    /\ last.msg.pin # last.pre.pin_number
    /\ IsOpen(fds, pin.fd)
    /\ pin.pin_number = last.msg.pin

\* C19: a write or read request, whatever its outcome, leaves the state, the
\* descriptor, the pin number and the export flag as they were, and leaves
\* the descriptor open if it was; the struct is changed by init, release
\* and set_int only.
C19_ReadWriteKeepStruct ==
    /\ Served(WriteMsgs \cup ReadMsgs) =>
           /\ pin = last.pre
           /\ OpsOf({"close", "open", "export", "unexport", "direction", "edge"}) = {}
    /\ last.kind = "interrupt" => pin = last.pre
    /\ (last.kind = "request" /\ pin # last.pre) =>
           (last.msg.tag \in {"init", "cast"} \/ last.msg.fn = "set_int")

\* a write that was taken, or a read that returned a high level, on an open
\* pin
C19_Witness ==
    /\ Served(WriteMsgs \cup ReadMsgs)
    /\ last.pre.fd # -1
    /\ \E i \in OpsOf({"pwrite", "pread"}) : last.ops[i].res = 1
    /\ last.sent = <<PortReply(last.msg.ref,
                        IF last.msg.fn = "write" THEN Atom("ok") ELSE IntTerm(1))>>

\* every one-byte transfer on the value descriptor that did not move its byte
\* ended the process, with nothing sent by the handler that made it
ShortIoIsFatal ==
    \A i \in OpsOf({"pread", "pwrite"}) :
        last.ops[i].res # 1 =>
            (last.fatal /\ terminated /\ last.sent = <<>>)

\* C20: a short or failed one-byte read or write on the value descriptor, in
\* a read call, a write call or the processing of an interrupt, ends the
\* process: nothing is sent for it, no error reply either, and once the
\* process has ended no further step is taken.
C20_ShortIoEndsProcess == []ShortIoIsFatal /\ [][~terminated]_vars

====
